---- MODULE Spec2Model ----
(***************************************************************************)
(* State-machine model of the useCampaignData hook                         *)
(* (src/src/hooks/useCampaignData.ts): the fetch effect, the setDateRange  *)
(* mutator, and the five memoised derived views.                           *)
(*                                                                         *)
(* Conventions                                                             *)
(*  - A JavaScript Date is a record [tag, day, ms]: tag "date" is a valid  *)
(*    instant (UTC day number since 1970-01-01 and millisecond of that UTC *)
(*    day), tag "invalid" is a Date whose time value is NaN, tag           *)
(*    "undefined" is the JavaScript value undefined.  Instants are kept as *)
(*    (day, ms) pairs because a time value in milliseconds does not fit    *)
(*    the model checker's integers.                                        *)
(*  - The host timezone is a fixed offset tz (minutes east of UTC); local  *)
(*    wall-clock fields are the UTC fields shifted by tz.  Daylight-saving *)
(*    transitions are not modelled.                                        *)
(*  - A JavaScript number that may be NaN or Infinity is a fraction        *)
(*    [n, d] in lowest terms: d = 0 and n = 0 is NaN, d = 0 and n = 1 is   *)
(*    Infinity.  Rounding of IEEE doubles is not modelled.                 *)
(*  - A string is a sequence of one-character strings.                     *)
(*  - The helpers of '@/lib/csvParser' are not among the sources; they are *)
(*    modelled from the specification (sections 4.2 to 4.5).               *)
(***************************************************************************)
EXTENDS Integers, Sequences, FiniteSets, TLC

VARIABLES pc, response, rawData, loading, error, dateRange, err, now, tz,
          filteredData, metrics, topCreatives, campaignTrends,
          availableDateRange

vars == <<pc, response, rawData, loading, error, dateRange, err, now, tz,
          filteredData, metrics, topCreatives, campaignTrends,
          availableDateRange>>

(***************************************************************************)
(* Bounds of the model                                                     *)
(***************************************************************************)
\* Longest record sequence parseCSV returns in the model.
MaxRecords == 2

(***************************************************************************)
(* Time: JavaScript Date and date-fns                                      *)
(***************************************************************************)
MsPerSecond == 1000
MsPerMinute == 60 * MsPerSecond
MsPerHour == 60 * MsPerMinute
MsPerDay == 24 * MsPerHour

\* setHours(0, 0, 0, 0) and setHours(23, 59, 59, 999) as milliseconds of the local day
StartOfDayMs == 0 * MsPerHour + 0 * MsPerMinute + 0 * MsPerSecond + 0
EndOfDayMs == 23 * MsPerHour + 59 * MsPerMinute + 59 * MsPerSecond + 999

InvalidDate == [tag |-> "invalid", day |-> 0, ms |-> 0]
Undefined == [tag |-> "undefined", day |-> 0, ms |-> 0]

\* The instant `ms` milliseconds after the start of UTC day `day` (ms any integer).
Instant(day, ms) ==
    [tag |-> "date", day |-> day + (ms \div MsPerDay), ms |-> ms % MsPerDay]

\* isNaN(d.getTime())
IsNaNDate(d) == d.tag # "date"

\* a.getTime() < b.getTime() and a.getTime() <= b.getTime(), for valid dates
TimeLT(a, b) == a.day < b.day \/ (a.day = b.day /\ a.ms < b.ms)
TimeLE(a, b) == a.day < b.day \/ (a.day = b.day /\ a.ms <= b.ms)

\* Local wall-clock fields of an instant in a host whose offset is zone minutes:
\* day is the local day number, ms the milliseconds since local midnight.
LocalFields(t, zone) == Instant(t.day, t.ms + zone * MsPerMinute)

\* The instant whose local wall-clock fields are (day, ms).
FromLocal(day, ms, zone) == Instant(day, ms - zone * MsPerMinute)

\* Days since 1970-01-01 of the proleptic Gregorian date y-m-d, m in 1..12.
DaysFromCivil(y, m, d) ==
    LET yy == IF m <= 2 THEN y - 1 ELSE y
        era == yy \div 400
        yoe == yy - era * 400
        mp == (m + 9) % 12
        doy == (153 * mp + 2) \div 5 + d - 1
        doe == yoe * 365 + yoe \div 4 - yoe \div 100 + doy
    IN era * 146097 + doe - 719468

\* The Gregorian date <<year, month, day>> of a day number (getFullYear,
\* getMonth() + 1, getDate of local midnight of that day).
CivilFromDays(z0) ==
    LET z == z0 + 719468
        era == z \div 146097
        doe == z - era * 146097
        yoe == (doe - doe \div 1460 + doe \div 36524 - doe \div 146096) \div 365
        doy == doe - (365 * yoe + yoe \div 4 - yoe \div 100)
        mp == (5 * doy + 2) \div 153
        d == doy - (153 * mp + 2) \div 5 + 1
        m == IF mp < 10 THEN mp + 3 ELSE mp - 9
        y == yoe + era * 400
    IN <<IF m <= 2 THEN y + 1 ELSE y, m, d>>

\* A JavaScript number that may be NaN: [nan, v].
NaNNumber == [nan |-> TRUE, v |-> 0]
Num(v) == [nan |-> FALSE, v |-> v]

\* new Date(year, monthIndex, day): local midnight of the day the three numbers
\* name after carrying month overflow into the year and day overflow into the
\* following days; years 0..99 mean 1900..1999; any NaN argument gives an
\* invalid Date.
NewDateYMD(year, monthIndex, day, zone) ==
    IF year.nan \/ monthIndex.nan \/ day.nan
    THEN InvalidDate
    ELSE LET y0 == IF year.v >= 0 /\ year.v <= 99 THEN 1900 + year.v ELSE year.v
             ym == y0 + (monthIndex.v \div 12)
             mn == monthIndex.v % 12
         IN FromLocal(DaysFromCivil(ym, mn + 1, 1) + day.v - 1, StartOfDayMs, zone)

\* date-fns subDays(date, amount): setDate(getDate() - amount), the local time of
\* day kept.
subDays(date, amount, zone) ==
    IF IsNaNDate(date) THEN InvalidDate
    ELSE LET l == LocalFields(date, zone)
         IN FromLocal(l.day - amount, l.ms, zone)

\* date-fns endOfDay(date): setHours(23, 59, 59, 999)
endOfDay(date, zone) ==
    IF IsNaNDate(date) THEN InvalidDate
    ELSE FromLocal(LocalFields(date, zone).day, EndOfDayMs, zone)

\* startOfDay as it would be if the call were left out
startOfDaySkipped(date, zone) == date

\* date-fns startOfDay(date): setHours(0, 0, 0, 0)
startOfDay(date, zone) ==
    IF IsNaNDate(date) THEN InvalidDate
    ELSE FromLocal(LocalFields(date, zone).day, StartOfDayMs, zone)

(***************************************************************************)
(* Strings: split('-') and Number                                          *)
(***************************************************************************)
Digits == <<"0", "1", "2", "3", "4", "5", "6", "7", "8", "9">>

IsDigit(c) == \E i \in 1..10 : Digits[i] = c
DigitValue(c) == (CHOOSE i \in 1..10 : Digits[i] = c) - 1

\* Number(s) for a string of the model's alphabet (digits, '-', '/', letters):
\* the empty string is 0, a string of digits is its decimal value, anything
\* else is NaN.
RECURSIVE DecimalValue(_)
DecimalValue(s) ==
    IF s = <<>> THEN 0
    ELSE 10 * DecimalValue(SubSeq(s, 1, Len(s) - 1)) + DigitValue(s[Len(s)])

Number(s) ==
    IF \A i \in 1..Len(s) : IsDigit(s[i]) THEN Num(DecimalValue(s)) ELSE NaNNumber

\* s.split('-'): the pieces of s between the '-' characters (always at least one).
RECURSIVE SplitDash(_)
SplitDash(s) ==
    IF \A i \in 1..Len(s) : s[i] # "-"
    THEN <<s>>
    ELSE LET k == CHOOSE i \in 1..Len(s) :
                     s[i] = "-" /\ \A j \in 1..(i - 1) : s[j] # "-"
         IN <<SubSeq(s, 1, k - 1)>> \o SplitDash(SubSeq(s, k + 1, Len(s)))

\* [year, month, day] = parts: an element missing from the array is undefined,
\* which arithmetic and the Date constructor turn into NaN.
Component(parts, i) == IF i <= Len(parts) THEN parts[i] ELSE NaNNumber

\* month - 1
MinusOne(x) == IF x.nan THEN NaNNumber ELSE Num(x.v - 1)

parseLocalDate(dateStr, zone) ==
    LET pieces == SplitDash(dateStr)
        parts == [i \in 1..Len(pieces) |-> Number(pieces[i])]
        year == Component(parts, 1)
        month == Component(parts, 2)
        day == Component(parts, 3)
    IN NewDateYMD(year, MinusOne(month), day, zone)

(***************************************************************************)
(* Numbers: division as JavaScript performs it                             *)
(***************************************************************************)
RECURSIVE GCD(_, _)
GCD(a, b) == IF b = 0 THEN a ELSE GCD(b, a % b)

Zero == [n |-> 0, d |-> 1]
NaN == [n |-> 0, d |-> 0]
Infinity == [n |-> 1, d |-> 0]

IsFinite(q) == q.d # 0

\* a / b for non-negative integers: x/0 is Infinity, 0/0 is NaN.
Div(a, b) ==
    IF b = 0 THEN (IF a = 0 THEN NaN ELSE Infinity)
    ELSE LET g == GCD(a, b) IN [n |-> a \div g, d |-> b \div g]

\* q * k for a non-negative integer k > 0
Times(q, k) == IF q.d = 0 THEN q ELSE Div(q.n * k, q.d)

(***************************************************************************)
(* Records (CampaignData) and the values parseCSV can return               *)
(***************************************************************************)
\* The date field of a record: a string, or an already-resolved Date.
StrDate(s) == [isString |-> TRUE, str |-> s, time |-> Undefined]
ObjDate(t) == [isString |-> FALSE, str |-> <<>>, time |-> t]

Rec(date, spend, conversions, reach, impressions, engagement, creative) ==
    [date |-> date, spend |-> spend, conversions |-> conversions, reach |-> reach,
     impressions |-> impressions, engagement |-> engagement, creative |-> creative]

\* "2024-01-29", "2024-02-04", "2024-02-10" and the non-ISO "29/01/2024"
Str20240129 == <<"2", "0", "2", "4", "-", "0", "1", "-", "2", "9">>
Str20240204 == <<"2", "0", "2", "4", "-", "0", "2", "-", "0", "4">>
Str20240210 == <<"2", "0", "2", "4", "-", "0", "2", "-", "1", "0">>
StrSlashDate == <<"2", "9", "/", "0", "1", "/", "2", "0", "2", "4">>

RecJan29 == Rec(StrDate(Str20240129), 100, 2, 800, 1000, 50, 1)
RecFeb04 == Rec(StrDate(Str20240204), 50, 0, 400, 500, 10, 2)
\* a record whose date string is malformed
RecMalformed == Rec(StrDate(StrSlashDate), 10, 1, 5, 0, 0, 1)
\* a record whose date is a Date object (UTC midnight of 2024-02-01), with
\* engagement but no impressions
RecDateObj == Rec(ObjDate(Instant(DaysFromCivil(2024, 2, 1), 0)), 30, 3, 20, 0, 5, 3)
\* a record after every range of the model, all measures zero
RecFeb10 == Rec(StrDate(Str20240210), 0, 0, 0, 0, 0, 2)

RecordPool == {RecJan29, RecFeb04, RecMalformed, RecDateObj, RecFeb10}

RECURSIVE SeqsUpTo(_, _)
SeqsUpTo(S, n) ==
    IF n = 0 THEN {<<>>}
    ELSE LET shorter == SeqsUpTo(S, n - 1)
         IN shorter \cup {Append(q, x) : q \in shorter, x \in S}

\* The record sequences parseCSV returns in the model.
ParsedSets == SeqsUpTo(RecordPool, MaxRecords)

(***************************************************************************)
(* '@/lib/csvParser': filterByDateRange, aggregateMetrics, getTopCreatives, *)
(* getCampaignTrends, modelled from the specification                      *)
(***************************************************************************)
\* NormalizeDate as it would be with a date string read as UTC midnight
NormalizeDateAsUTC(d, zone) ==
    IF d.isString THEN parseLocalDate(d.str, 0) ELSE d.time

\* typeof d.date === 'string' ? parseLocalDate(d.date) : new Date(d.date)
NormalizeDate(d, zone) ==
    IF d.isString THEN parseLocalDate(d.str, zone) ELSE d.time

\* Records whose normalised date lies in [from, to], bounds included, compared as
\* instants, in their original order; a record without a valid date is in no range.
filterByDateRange(data, from, to, zone) ==
    IF IsNaNDate(from) \/ IsNaNDate(to) THEN <<>>
    ELSE SelectSeq(data,
             LAMBDA r : LET t == NormalizeDate(r.date, zone)
                        IN ~IsNaNDate(t) /\ TimeLE(from, t) /\ TimeLE(t, to))

RECURSIVE SumField(_, _)
SumField(data, f) ==
    IF data = <<>> THEN 0 ELSE data[1][f] + SumField(Tail(data), f)

aggregateMetrics(data) ==
    [totalSpend |-> SumField(data, "spend"),
     totalConversions |-> SumField(data, "conversions"),
     totalReach |-> SumField(data, "reach"),
     totalImpressions |-> SumField(data, "impressions"),
     totalEngagement |-> SumField(data, "engagement")]

\* One creative's measures summed over the subset.
AdPerformanceOf(data, c) ==
    LET own == SelectSeq(data, LAMBDA r : r.creative = c)
    IN [creative |-> c,
        spend |-> SumField(own, "spend"),
        conversions |-> SumField(own, "conversions"),
        impressions |-> SumField(own, "impressions"),
        engagement |-> SumField(own, "engagement")]

\* a ranks before b: more spend first, the smaller identifier on a tie
RanksBefore(a, b) ==
    a.spend > b.spend \/ (a.spend = b.spend /\ a.creative < b.creative)

RECURSIVE RankAll(_)
RankAll(S) ==
    IF S = {} THEN <<>>
    ELSE LET best == CHOOSE a \in S : \A b \in S \ {a} : RanksBefore(a, b)
         IN <<best>> \o RankAll(S \ {best})

getTopCreatives(data, n) ==
    LET creatives == {data[i].creative : i \in 1..Len(data)}
        ranked == RankAll({AdPerformanceOf(data, c) : c \in creatives})
    IN SubSeq(ranked, 1, IF Len(ranked) < n THEN Len(ranked) ELSE n)

\* The local day number of a record's normalised date.
LocalDayOf(r, zone) == LocalFields(NormalizeDate(r.date, zone), zone).day

\* One entry per local calendar day from the earliest day of the subset to the
\* anchor's day, oldest first, days without records filled with zeros.  The
\* helper receives the subset and the anchor only.
getCampaignTrends(data, anchor, zone) ==
    IF IsNaNDate(anchor) THEN <<>>
    ELSE LET last == LocalFields(anchor, zone).day
             dated == SelectSeq(data, LAMBDA r : ~IsNaNDate(NormalizeDate(r.date, zone)))
             days == {LocalDayOf(dated[i], zone) : i \in 1..Len(dated)} \cup {last}
             first == CHOOSE d \in days : \A e \in days : d <= e
         IN [i \in 1..(last - first + 1) |->
                LET day == first + i - 1
                    own == SelectSeq(dated, LAMBDA r : LocalDayOf(r, zone) = day)
                IN [date |-> CivilFromDays(day),
                    spend |-> SumField(own, "spend"),
                    conversions |-> SumField(own, "conversions")]]

(***************************************************************************)
(* The memoised views of the hook                                          *)
(***************************************************************************)
NoRange == [null |-> TRUE, from |-> Undefined, to |-> Undefined]
Range(from, to) == [null |-> FALSE, from |-> from, to |-> to]

\* getTopCreatives(filteredData, 6)
TopN == 6

ComputeFilteredData(raw, range, zone) ==
    IF range.null THEN <<>>
    ELSE filterByDateRange(raw, range.from, range.to, zone)

\* ComputeMetrics as it would be without the guards on the denominators
ComputeMetricsUnguarded(filtered) ==
    LET agg == aggregateMetrics(filtered)
    IN [totalSpend |-> agg.totalSpend,
        totalConversions |-> agg.totalConversions,
        totalReach |-> agg.totalReach,
        totalImpressions |-> agg.totalImpressions,
        totalEngagement |-> agg.totalEngagement,
        avgCPA |-> Div(agg.totalSpend, agg.totalConversions),
        ctr |-> Times(Div(agg.totalEngagement, agg.totalImpressions), 100)]

\* ComputeMetrics as it would be with ctr left as a fraction, not a percentage
ComputeMetricsCtrFraction(filtered) ==
    LET agg == aggregateMetrics(filtered)
    IN [totalSpend |-> agg.totalSpend,
        totalConversions |-> agg.totalConversions,
        totalReach |-> agg.totalReach,
        totalImpressions |-> agg.totalImpressions,
        totalEngagement |-> agg.totalEngagement,
        avgCPA |-> IF agg.totalConversions > 0
                   THEN Div(agg.totalSpend, agg.totalConversions) ELSE Zero,
        ctr |-> IF agg.totalImpressions > 0
                THEN Div(agg.totalEngagement, agg.totalImpressions) ELSE Zero]

ComputeMetrics(filtered) ==
    LET agg == aggregateMetrics(filtered)
        avgCPA == IF agg.totalConversions > 0
                  THEN Div(agg.totalSpend, agg.totalConversions) ELSE Zero
        ctr == IF agg.totalImpressions > 0
               THEN Times(Div(agg.totalEngagement, agg.totalImpressions), 100) ELSE Zero
    IN [totalSpend |-> agg.totalSpend,
        totalConversions |-> agg.totalConversions,
        totalReach |-> agg.totalReach,
        totalImpressions |-> agg.totalImpressions,
        totalEngagement |-> agg.totalEngagement,
        avgCPA |-> avgCPA,
        ctr |-> ctr]

ComputeTopCreatives(filtered) == getTopCreatives(filtered, TopN)

ComputeCampaignTrends(filtered, range, zone) ==
    IF range.null THEN <<>>
    ELSE getCampaignTrends(filtered, range.to, zone)

\* dates.sort((a, b) => a.getTime() - b.getTime())
RECURSIVE SortDates(_)
SortDates(dates) ==
    IF dates = <<>> THEN <<>>
    ELSE LET k == CHOOSE i \in 1..Len(dates) :
                     \A j \in 1..Len(dates) :
                         /\ ~TimeLT(dates[j], dates[i])
                         /\ (j < i => TimeLT(dates[i], dates[j]))
             rest == SubSeq(dates, 1, k - 1) \o SubSeq(dates, k + 1, Len(dates))
         IN <<dates[k]>> \o SortDates(rest)

\* an array element read past the end is undefined
At(a, i) == IF i >= 1 /\ i <= Len(a) THEN a[i] ELSE Undefined

NoAvailable == [null |-> TRUE, min |-> Undefined, max |-> Undefined]

ComputeAvailableDateRange(raw, zone) ==
    IF Len(raw) = 0 THEN NoAvailable
    ELSE LET mapped == [i \in 1..Len(raw) |-> NormalizeDate(raw[i].date, zone)]
             valid == SelectSeq(mapped, LAMBDA d : ~IsNaNDate(d))
             dates == SortDates(valid)
         IN [null |-> FALSE, min |-> At(dates, 1), max |-> At(dates, Len(dates))]

(***************************************************************************)
(* Environment: host timezone, clock readings, thrown values, caller ranges *)
(***************************************************************************)
\* Host timezone offsets, in minutes east of UTC.
TzOffsets == {-180, 0, 330}

NoError == [null |-> TRUE, msg |-> ""]
Message(m) == [null |-> FALSE, msg |-> m]

\* The value bound by the catch clause: an Error with a message, or a value
\* that is not an Error.
NotThrown == [thrown |-> FALSE, isError |-> FALSE, message |-> ""]
ErrorObj(m) == [thrown |-> TRUE, isError |-> TRUE, message |-> m]
NonError == [thrown |-> TRUE, isError |-> FALSE, message |-> ""]

\* throw new Error('Failed to fetch data')
NotOkError == ErrorObj("Failed to fetch data")

\* What fetch(), response.text() and parseCSV can throw or reject with.
FetchRejections == {ErrorObj("Failed to fetch")}
TextRejections == {ErrorObj("The operation was aborted.")}
ParseThrows == {ErrorObj("Malformed CSV"), ErrorObj(""), NonError}

\* A local wall-clock time as an instant of the host.
LocalTime(y, m, d, ms, zone) == FromLocal(DaysFromCivil(y, m, d), ms, zone)

\* Readings of new Date() when the fetch settles.
NowSet(zone) ==
    {LocalTime(2024, 2, 5, 10 * MsPerHour, zone),
     LocalTime(2024, 2, 5, StartOfDayMs, zone),
     LocalTime(2024, 3, 1, EndOfDayMs, zone),
     LocalTime(2024, 1, 3, 12 * MsPerHour, zone)}

\* Arguments callers pass to setDateRange: null, the whole week 2024-01-29 to
\* 2024-02-04, a single day, a range not aligned to days, a range whose from
\* is after its to.
CallerRanges(zone) ==
    {NoRange,
     Range(LocalTime(2024, 1, 29, StartOfDayMs, zone), LocalTime(2024, 2, 4, EndOfDayMs, zone)),
     Range(LocalTime(2024, 2, 1, StartOfDayMs, zone), LocalTime(2024, 2, 1, EndOfDayMs, zone)),
     Range(LocalTime(2024, 1, 30, 10 * MsPerHour, zone), LocalTime(2024, 2, 1, 12 * MsPerHour, zone)),
     Range(LocalTime(2024, 2, 4, StartOfDayMs, zone), LocalTime(2024, 1, 29, EndOfDayMs, zone))}

(***************************************************************************)
(* Rendering: useMemo recomputes a view when one of its dependencies        *)
(* changed and keeps the cached value otherwise.  Dependencies are compared *)
(* by value; a new reference to an equal value recomputes an equal result.  *)
(***************************************************************************)
\* the dependency list of filteredData as it would be with dateRange left out
FilteredDataDepsStale == <<rawData>>

FilteredDataDeps == <<rawData, dateRange>>
MetricsDeps == <<filteredData>>
TopCreativesDeps == <<filteredData>>
CampaignTrendsDeps == <<filteredData, dateRange>>
AvailableDateRangeDeps == <<rawData>>

Render ==
    /\ filteredData' = IF FilteredDataDeps' # FilteredDataDeps
                       THEN ComputeFilteredData(rawData', dateRange', tz')
                       ELSE filteredData
    /\ metrics' = IF MetricsDeps' # MetricsDeps
                  THEN ComputeMetrics(filteredData')
                  ELSE metrics
    /\ topCreatives' = IF TopCreativesDeps' # TopCreativesDeps
                       THEN ComputeTopCreatives(filteredData')
                       ELSE topCreatives
    /\ campaignTrends' = IF CampaignTrendsDeps' # CampaignTrendsDeps
                         THEN ComputeCampaignTrends(filteredData', dateRange', tz')
                         ELSE campaignTrends
    /\ availableDateRange' = IF AvailableDateRangeDeps' # AvailableDateRangeDeps
                             THEN ComputeAvailableDateRange(rawData', tz')
                             ELSE availableDateRange

(***************************************************************************)
(* Initial state: the first render                                         *)
(***************************************************************************)
Init ==
    /\ pc = "mount"
    /\ response = "none"
    /\ tz \in TzOffsets
    /\ rawData = <<>>
    /\ loading = TRUE
    /\ error = NoError
    /\ dateRange = NoRange
    /\ err = NotThrown
    /\ now = Undefined
    /\ filteredData = ComputeFilteredData(<<>>, NoRange, tz)
    /\ metrics = ComputeMetrics(filteredData)
    /\ topCreatives = ComputeTopCreatives(filteredData)
    /\ campaignTrends = ComputeCampaignTrends(filteredData, NoRange, tz)
    /\ availableDateRange = ComputeAvailableDateRange(<<>>, tz)

(***************************************************************************)
(* fetchData                                                               *)
(*                                                                         *)
(* pc is the position of fetchData: "mount" (the effect has not run),      *)
(* "fetching" (await fetch), "reading" (await response.text()),            *)
(* "initRange", "clearError", "catch", "finally" (between two state        *)
(* updates of the continuation) and "done".  Each state update is a step   *)
(* followed by a render, so the states between the updates of a settling   *)
(* fetch are states of the model; a root that batches the updates shows    *)
(* the consumer only the states in which CallerCanRun holds.               *)
(***************************************************************************)
\* StartFetch as it would be with setLoading(false) written for setLoading(true)
StartFetchNotLoading ==
    /\ pc = "mount"
    /\ pc' = "fetching"
    /\ loading' = FALSE
    /\ UNCHANGED <<rawData, error, dateRange, err, now, tz, response>>
    /\ Render

\* The effect runs once after the first render: setLoading(true), fetch issued.
StartFetch ==
    /\ pc = "mount"
    /\ pc' = "fetching"
    /\ loading' = TRUE
    /\ UNCHANGED <<rawData, error, dateRange, err, now, tz, response>>
    /\ Render

\* fetch resolves with response.ok: response.text() is awaited.
FetchOk ==
    /\ pc = "fetching"
    /\ response' = "ok"
    /\ pc' = "reading"
    /\ UNCHANGED <<rawData, loading, error, dateRange, err, now, tz>>
    /\ Render

\* Control reaches the catch clause with the thrown value e (the step that
\* throws says what becomes of response).
Throw(e) ==
    /\ pc' = "catch"
    /\ err' = e
    /\ UNCHANGED <<rawData, loading, error, dateRange, now, tz>>
    /\ Render

\* FetchNotOk as it would be without the response.ok test: the body is read
FetchNotOkUnchecked ==
    /\ pc = "fetching"
    /\ response' = "notOk"
    /\ pc' = "reading"
    /\ UNCHANGED <<rawData, loading, error, dateRange, err, now, tz>>
    /\ Render

\* fetch resolves with response.ok false: the Error of line 48 is thrown.
FetchNotOk ==
    /\ pc = "fetching"
    /\ response' = "notOk"
    /\ Throw(NotOkError)

\* fetch rejects.
FetchReject ==
    /\ pc = "fetching"
    /\ UNCHANGED response
    /\ \E e \in FetchRejections : Throw(e)

\* response.text() rejects.
TextReject ==
    /\ pc = "reading"
    /\ UNCHANGED response
    /\ \E e \in TextRejections : Throw(e)

\* response.text() resolves and parseCSV throws.
\* ParseThrow as it would be with the throw after setRawData(parsed)
ParseThrowAfterStore ==
    /\ pc = "reading"
    /\ \E parsed \in ParsedSets, e \in ParseThrows :
         /\ rawData' = parsed
         /\ err' = e
    /\ pc' = "catch"
    /\ UNCHANGED <<loading, error, dateRange, now, tz, response>>
    /\ Render

ParseThrow ==
    /\ pc = "reading"
    /\ UNCHANGED response
    /\ \E e \in ParseThrows : Throw(e)

\* AfterSetRawData as it would be without the test of parsed.length
AfterSetRawDataAlways(parsed) == "initRange"

\* Where control goes after setRawData(parsed): if (parsed.length > 0)
AfterSetRawData(parsed) == IF Len(parsed) > 0 THEN "initRange" ELSE "clearError"

\* response.text() resolves, parseCSV returns parsed, setRawData(parsed).
ParseOk(parsed) ==
    /\ pc = "reading"
    /\ rawData' = parsed
    /\ pc' = AfterSetRawData(parsed)
    /\ UNCHANGED <<loading, error, dateRange, err, now, tz, response>>
    /\ Render

\* InitialRange as it would be with from seven days before to
InitialRangeSevenBack(clock, zone) ==
    LET to == endOfDay(subDays(clock, 1, zone), zone)
        from == startOfDay(subDays(to, 7, zone), zone)
    IN Range(from, to)

\* InitialRange as it would be with the window ending today
InitialRangeEndsToday(clock, zone) ==
    LET to == endOfDay(clock, zone)
        from == startOfDay(subDays(to, 6, zone), zone)
    IN Range(from, to)

\* The initial range for a clock reading: to = endOfDay(subDays(new Date(), 1)),
\* from = startOfDay(subDays(to, 6)).
InitialRange(clock, zone) ==
    LET to == endOfDay(subDays(clock, 1, zone), zone)
        from == startOfDay(subDays(to, 6, zone), zone)
    IN Range(from, to)

\* InitDateRange as it would be if it kept a range that is already set
InitDateRangeKeepsCaller(clock) ==
    /\ pc = "initRange"
    /\ now' = clock
    /\ dateRange' = IF dateRange.null THEN InitialRange(clock, tz) ELSE dateRange
    /\ pc' = "clearError"
    /\ UNCHANGED <<rawData, loading, error, err, tz, response>>
    /\ Render

\* new Date() is read and setDateRange({ from, to }) is called.
InitDateRange(clock) ==
    /\ pc = "initRange"
    /\ now' = clock
    /\ dateRange' = InitialRange(clock, tz)
    /\ pc' = "clearError"
    /\ UNCHANGED <<rawData, loading, error, err, tz, response>>
    /\ Render

\* setError(null)
ClearError ==
    /\ pc = "clearError"
    /\ error' = NoError
    /\ pc' = "finally"
    /\ UNCHANGED <<rawData, loading, dateRange, err, now, tz, response>>
    /\ Render

\* err instanceof Error ? err.message : 'Unknown error'
ErrorMessage(e) == IF e.isError THEN e.message ELSE "Unknown error"

\* Catch as it would be with a retry: the error is set and the fetch issued again
CatchRetries ==
    /\ pc = "catch"
    /\ error' = Message(ErrorMessage(err))
    /\ pc' = "fetching"
    /\ UNCHANGED <<rawData, loading, dateRange, err, now, tz, response>>
    /\ Render

\* Catch as it would be with setLoading(false) at the end of the try block
\* instead of in a finally clause
CatchWithoutFinally ==
    /\ pc = "catch"
    /\ error' = Message(ErrorMessage(err))
    /\ pc' = "done"
    /\ UNCHANGED <<rawData, loading, dateRange, err, now, tz, response>>
    /\ Render

\* catch (err) { setError(...) }
Catch ==
    /\ pc = "catch"
    /\ error' = Message(ErrorMessage(err))
    /\ pc' = "finally"
    /\ UNCHANGED <<rawData, loading, dateRange, err, now, tz, response>>
    /\ Render

\* finally { setLoading(false) }
Finally ==
    /\ pc = "finally"
    /\ loading' = FALSE
    /\ pc' = "done"
    /\ UNCHANGED <<rawData, error, dateRange, err, now, tz, response>>
    /\ Render

(***************************************************************************)
(* setDateRange, the mutator handed to the caller                          *)
(***************************************************************************)
\* The caller's code runs only while fetchData is not running: before the
\* effect, while a promise is awaited, or after fetchData has returned.
CallerCanRun == pc \in {"mount", "fetching", "reading", "done"}

\* SetDateRange as it would be if choosing a range also cleared the error
SetDateRangeClearsError(range) ==
    /\ CallerCanRun
    /\ dateRange' = range
    /\ error' = NoError
    /\ UNCHANGED <<pc, rawData, loading, err, now, tz, response>>
    /\ Render

SetDateRange(range) ==
    /\ CallerCanRun
    /\ dateRange' = range
    /\ UNCHANGED <<pc, rawData, loading, error, err, now, tz, response>>
    /\ Render

SetDateRangeCall == \E range \in CallerRanges(tz) : SetDateRange(range)

ParseOkStep == \E parsed \in ParsedSets : ParseOk(parsed)

InitDateRangeStep == \E clock \in NowSet(tz) : InitDateRange(clock)

\* The steps of fetchData from the moment the fetch settles.
FetchStep ==
    \/ FetchOk
    \/ FetchNotOk
    \/ FetchReject
    \/ TextReject
    \/ ParseThrow
    \/ ParseOkStep
    \/ InitDateRangeStep
    \/ ClearError
    \/ Catch
    \/ Finally

Next ==
    \/ StartFetch
    \/ FetchStep
    \/ SetDateRangeCall

Spec == Init /\ [][Next]_vars

\* The effect runs after the first render, the fetch and response.text()
\* settle, and the continuation of fetchData runs to its end.
FairSpec == Spec /\ WF_vars(StartFetch) /\ WF_vars(FetchStep)

(***************************************************************************)
(* The same hook with parseCSV returning records whose date strings cover   *)
(* the shapes the normaliser can meet: calendar dates, and strings with     *)
(* too few, too many, empty or non-numeric components.                      *)
(***************************************************************************)
\* "2024-02-29", "2023-12-31", "0050-01-01", "2024-02-30"
Str20240229 == <<"2", "0", "2", "4", "-", "0", "2", "-", "2", "9">>
Str20231231 == <<"2", "0", "2", "3", "-", "1", "2", "-", "3", "1">>
Str00500101 == <<"0", "0", "5", "0", "-", "0", "1", "-", "0", "1">>
Str20240230 == <<"2", "0", "2", "4", "-", "0", "2", "-", "3", "0">>
\* "", "2024-01", "2024-01-02-03", "2024-01-", "2024-xx-01"
StrEmpty == <<>>
StrTwoParts == <<"2", "0", "2", "4", "-", "0", "1">>
StrFourParts == <<"2", "0", "2", "4", "-", "0", "1", "-", "0", "2", "-", "0", "3">>
StrEmptyDay == <<"2", "0", "2", "4", "-", "0", "1", "-">>
StrLetters == <<"2", "0", "2", "4", "-", "x", "x", "-", "0", "1">>

DateStrings ==
    {Str20240129, Str20240229, Str20231231, Str00500101, Str20240230,
     StrEmpty, StrTwoParts, StrFourParts, StrEmptyDay, StrLetters, StrSlashDate}

\* A record whose date is the string s.
DateRec(s) == Rec(StrDate(s), 10, 1, 5, 100, 5, 1)

\* parseCSV results: one such record, alone or after the record of 2024-02-04.
DateStringStores ==
    {<<DateRec(s)>> : s \in DateStrings} \cup {<<RecFeb04, DateRec(s)>> : s \in DateStrings}

ParseDateStringsStep == \E parsed \in DateStringStores : ParseOk(parsed)

NormalizerNext ==
    \/ StartFetch
    \/ FetchOk
    \/ ParseDateStringsStep
    \/ InitDateRangeStep
    \/ ClearError
    \/ Finally
    \/ SetDateRangeCall

NormalizerSpec == Init /\ [][NormalizerNext]_vars

(***************************************************************************)
(* Properties                                                              *)
(***************************************************************************)
\* fetchData has thrown: control went through the catch clause.
Failed == err.thrown

\* The fetch has succeeded with at least one record and fetchData is between
\* its setDateRange call and its return.
AutoRangeJustSet == pc \in {"clearError", "finally"} /\ Len(rawData) > 0

\* C1: loading is true until fetchData has settled and false from then on, and
\* under fairness of the fetch steps it does settle: loading eventually becomes
\* false and stays false, on the success path and on every failure path.
C1_LoadingClearedOnEveryPath ==
    /\ [](pc # "done" => loading = TRUE)
    /\ [](pc = "done" => loading = FALSE)
    /\ <>[](loading = FALSE)

\* A parse failure with a value that is not an Error has been caught and
\* loading cleared.
C1_Witness == pc = "done" /\ loading = FALSE /\ err = NonError

\* C2: when the fetch ends in failure (response not ok, fetch or
\* response.text() rejected, parseCSV threw), error holds the message of the
\* failure, rawData is still empty, and no step of the failing fetchData
\* changes rawData or dateRange.
C2_FailureKeepsStore ==
    /\ []((response = "notOk" /\ pc \in {"finally", "done"})
            => error = Message("Failed to fetch data"))
    /\ []((Failed /\ pc \in {"finally", "done"})
            => (error.null = FALSE /\ error.msg = ErrorMessage(err)
                /\ rawData = <<>>))
    /\ [][(err'.thrown /\ pc # "done")
            => (rawData' = rawData /\ dateRange' = dateRange)]_vars

\* A non-ok response has been surfaced as an error, and the range the caller
\* chose while the fetch was in flight is still there.
C2_Witness ==
    /\ pc = "done"
    /\ response = "notOk"
    /\ error.null = FALSE
    /\ rawData = <<>>
    /\ dateRange.null = FALSE

\* C3: when the fetch has succeeded with at least one record, dateRange.to is
\* the last millisecond of the local day before the clock reading and
\* dateRange.from is local midnight six days before that day: seven local
\* calendar days ending yesterday.
C3_InitialRangeIsLastSevenDays ==
    AutoRangeJustSet =>
        /\ dateRange.null = FALSE
        /\ LET today == LocalFields(now, tz).day
               from == LocalFields(dateRange.from, tz)
               to == LocalFields(dateRange.to, tz)
           IN /\ to.day = today - 1
              /\ to.ms = MsPerDay - 1
              /\ from.day = to.day - 6
              /\ from.ms = 0
              /\ Cardinality(from.day .. to.day) = 7

\* The clock read 2024-03-01T23:59:59.999 in a zone west of UTC: the window
\* crosses a month boundary and the leap day.
C3_Witness ==
    /\ AutoRangeJustSet
    /\ tz = -180
    /\ now = LocalTime(2024, 3, 1, EndOfDayMs, tz)
    /\ CivilFromDays(LocalFields(dateRange.to, tz).day) = <<2024, 2, 29>>

\* The clock reads 2024-02-05T10:00 local when the range is initialised.
NowIsFeb5At10 == now = LocalTime(2024, 2, 5, 10 * MsPerHour, tz)

\* C4 as stated: with the clock at 2024-02-05T10:00 local the initial range is
\* from 2024-01-30T00:00:00.000 to 2024-02-04T23:59:59.999.
C4_AsClaimed ==
    (AutoRangeJustSet /\ NowIsFeb5At10) =>
        /\ dateRange.from = LocalTime(2024, 1, 30, 0, tz)
        /\ dateRange.to = LocalTime(2024, 2, 4, MsPerDay - 1, tz)

\* C4 amended: with the clock at 2024-02-05T10:00 local the initial range is
\* from 2024-01-29T00:00:00.000 to 2024-02-04T23:59:59.999.
C4_InitialRangeScenario ==
    (AutoRangeJustSet /\ NowIsFeb5At10) =>
        /\ dateRange.null = FALSE
        /\ CivilFromDays(LocalFields(dateRange.from, tz).day) = <<2024, 1, 29>>
        /\ LocalFields(dateRange.from, tz).ms = 0
        /\ CivilFromDays(LocalFields(dateRange.to, tz).day) = <<2024, 2, 4>>
        /\ LocalFields(dateRange.to, tz).ms = MsPerDay - 1

C4_Witness == AutoRangeJustSet /\ NowIsFeb5At10 /\ pc = "finally" /\ tz = 330

\* C5: in every state the four views are those of the current rawData and
\* dateRange: filteredData is the filter of rawData by the range (empty without
\* a range), metrics the aggregation of that filteredData, topCreatives its
\* top 6, campaignTrends its trend series anchored at dateRange.to.
C5_ViewsFollowInputs ==
    /\ filteredData = IF dateRange.null THEN <<>>
                      ELSE filterByDateRange(rawData, dateRange.from, dateRange.to, tz)
    /\ metrics = ComputeMetrics(filteredData)
    /\ topCreatives = getTopCreatives(filteredData, 6)
    /\ campaignTrends = IF dateRange.null THEN <<>>
                        ELSE getCampaignTrends(filteredData, dateRange.to, tz)

\* After the store was filled the caller replaced the range by one that is not
\* the initial one, and the views show the one record inside it.
C5_Witness ==
    /\ pc = "done"
    /\ Len(rawData) = 2
    /\ dateRange = Range(LocalTime(2024, 1, 30, 10 * MsPerHour, tz),
                         LocalTime(2024, 2, 1, 12 * MsPerHour, tz))
    /\ filteredData = <<RecDateObj>>
    /\ metrics.totalSpend = 30
    /\ Len(campaignTrends) >= 1

\* The normalised dates of the records of data that are valid dates.
ValidDatesOf(data, zone) ==
    {t \in {NormalizeDate(data[i].date, zone) : i \in 1..Len(data)} : ~IsNaNDate(t)}

\* C6 as stated: availableDateRange is null for an empty rawData, and for every
\* non-empty rawData (also one whose dates are all malformed) it is a pair of
\* dates with min <= max, the earliest and the latest normalised record date.
C6_AsClaimed ==
    /\ (rawData = <<>> => availableDateRange.null = TRUE)
    /\ (rawData # <<>> =>
          /\ availableDateRange.null = FALSE
          /\ availableDateRange.min.tag = "date"
          /\ availableDateRange.max.tag = "date"
          /\ TimeLE(availableDateRange.min, availableDateRange.max)
          /\ availableDateRange.min \in ValidDatesOf(rawData, tz)
          /\ availableDateRange.max \in ValidDatesOf(rawData, tz)
          /\ \A t \in ValidDatesOf(rawData, tz) :
                 TimeLE(availableDateRange.min, t) /\ TimeLE(t, availableDateRange.max))

\* C7: a setDateRange call, whatever its argument and whenever it is made,
\* leaves availableDateRange, rawData, loading and error as they were.
C7_SetDateRangeFrame ==
    [][SetDateRangeCall =>
         UNCHANGED <<availableDateRange, rawData, loading, error>>]_vars

\* The caller chose the single day 2024-02-01 after the store was filled; the
\* available range is still that of the two records.
C7_Witness ==
    /\ pc = "done"
    /\ rawData = <<RecFeb04, RecJan29>>
    /\ dateRange = Range(LocalTime(2024, 2, 1, StartOfDayMs, tz),
                         LocalTime(2024, 2, 1, EndOfDayMs, tz))
    /\ availableDateRange.null = FALSE
    /\ CivilFromDays(LocalFields(availableDateRange.min, tz).day) = <<2024, 1, 29>>
    /\ CivilFromDays(LocalFields(availableDateRange.max, tz).day) = <<2024, 2, 4>>

\* C8: avgCPA is totalSpend / totalConversions when there are conversions and
\* exactly 0 otherwise; ctr is totalEngagement / totalImpressions * 100 when
\* there are impressions and exactly 0 otherwise; both are 0 for the empty
\* subset and without a range.  The sums are those of filteredData.
C8_RatiosGuarded ==
    LET spend == SumField(filteredData, "spend")
        conversions == SumField(filteredData, "conversions")
        impressions == SumField(filteredData, "impressions")
        engagement == SumField(filteredData, "engagement")
    IN /\ conversions > 0 =>
             /\ metrics.avgCPA.d > 0
             /\ metrics.avgCPA.n * conversions = spend * metrics.avgCPA.d
       /\ conversions = 0 => metrics.avgCPA = Zero
       /\ impressions > 0 =>
             /\ metrics.ctr.d > 0
             /\ metrics.ctr.n * impressions = 100 * engagement * metrics.ctr.d
       /\ impressions = 0 => metrics.ctr = Zero
       /\ (filteredData = <<>> \/ dateRange.null) =>
             (metrics.avgCPA = Zero /\ metrics.ctr = Zero)

\* The filtered subset has conversions and engagement but no impressions: one
\* ratio is a quotient, the other is the guarded 0.
C8_Witness ==
    /\ filteredData = <<RecDateObj>>
    /\ metrics.totalImpressions = 0
    /\ metrics.totalEngagement = 5
    /\ metrics.ctr = Zero
    /\ metrics.avgCPA = [n |-> 10, d |-> 1]

\* The store and the range of the end-to-end scenario.
ScenarioStore == <<RecJan29, RecFeb04>>
ScenarioRange ==
    Range(LocalTime(2024, 1, 29, 0, tz), LocalTime(2024, 2, 4, MsPerDay - 1, tz))

\* C9: with the records of 2024-01-29 (spend 100, conversions 2, impressions
\* 1000, engagement 50) and 2024-02-04 (spend 50, conversions 0, impressions
\* 500, engagement 10) and the range 2024-01-29 00:00 to 2024-02-04
\* 23:59:59.999, filteredData has 2 records, totalSpend is 150,
\* totalConversions 2, avgCPA 75 and ctr 4.
C9_EndToEndScenario ==
    (rawData = ScenarioStore /\ dateRange = ScenarioRange) =>
        /\ Len(filteredData) = 2
        /\ metrics.totalSpend = 150
        /\ metrics.totalConversions = 2
        /\ metrics.avgCPA = [n |-> 75, d |-> 1]
        /\ metrics.ctr = [n |-> 4, d |-> 1]

\* The scenario's store is loaded and the caller has set the scenario's range
\* (the clock reading gave another initial range).
C9_Witness ==
    /\ pc = "done"
    /\ rawData = ScenarioStore
    /\ dateRange = ScenarioRange
    /\ now = LocalTime(2024, 1, 3, 12 * MsPerHour, tz)

\* from is the start of a local day, to the end of a local day, from <= to.
WellFormedRange(range) ==
    /\ range.from.tag = "date"
    /\ range.to.tag = "date"
    /\ LocalFields(range.from, tz).ms = 0
    /\ LocalFields(range.to, tz).ms = MsPerDay - 1
    /\ TimeLE(range.from, range.to)

\* C10 as stated: whenever dateRange is not null, also after setDateRange
\* calls, from is the start of a local day, to the end of one, and from <= to.
C10_AsClaimed == dateRange.null = FALSE => WellFormedRange(dateRange)

\* C10 amended: the range the initialisation installs has from at the start of
\* a local day, to at the end of one, and from <= to; a dateRange that is not of
\* that form is a value the caller passed to setDateRange, kept as passed.
C10_AutoRangeWellFormed ==
    /\ AutoRangeJustSet => (dateRange.null = FALSE /\ WellFormedRange(dateRange))
    /\ (dateRange.null = FALSE /\ ~WellFormedRange(dateRange))
          => dateRange \in CallerRanges(tz)

\* The initial range was installed from a clock reading of 2024-01-03: it
\* starts in the previous year.
C10_Witness ==
    /\ AutoRangeJustSet
    /\ pc = "clearError"
    /\ WellFormedRange(dateRange)
    /\ CivilFromDays(LocalFields(dateRange.from, tz).day) = <<2023, 12, 27>>

\* The number of local calendar days from the day of from to the day of to.
DaysSpanned(range) ==
    LocalFields(range.to, tz).day - LocalFields(range.from, tz).day + 1

\* C11 as stated: for every active range with from <= to, campaignTrends has
\* one entry per local calendar day of [from, to], also when the earliest days
\* or all days have no matching record, and its last entry is the day of to.
C11_AsClaimed ==
    (dateRange.null = FALSE /\ ~IsNaNDate(dateRange.from) /\ ~IsNaNDate(dateRange.to)
       /\ TimeLE(dateRange.from, dateRange.to)) =>
        /\ Len(campaignTrends) = DaysSpanned(dateRange)
        /\ campaignTrends[Len(campaignTrends)].date
             = CivilFromDays(LocalFields(dateRange.to, tz).day)

\* s consists of exactly three non-empty runs of digits separated by '-'.
ThreeNumericComponents(s) ==
    LET dashes == {i \in 1..Len(s) : s[i] = "-"}
    IN /\ Cardinality(dashes) = 2
       /\ \A i \in 1..Len(s) : i \notin dashes => IsDigit(s[i])
       /\ 1 \notin dashes
       /\ Len(s) \notin dashes
       /\ \A i \in dashes : i + 1 \notin dashes

\* The store holds one record, whose date is a string.
OneStringDate == Len(rawData) = 1 /\ rawData[1].date.isString

\* C12 as stated: a date string that does not decompose into exactly three
\* numeric components (two or four components, the empty string, a non-numeric
\* or empty component) is parsed to an invalid date, which the validity filter
\* removes, so it gives neither min nor max of availableDateRange.
C12_AsClaimed ==
    (OneStringDate /\ ~ThreeNumericComponents(rawData[1].date.str)) =>
        /\ IsNaNDate(parseLocalDate(rawData[1].date.str, tz))
        /\ availableDateRange.min.tag # "date"
        /\ availableDateRange.max.tag # "date"

\* The decimal value of the digits of s at positions i..j.
RECURSIVE DigitsValue(_, _, _)
DigitsValue(s, i, j) ==
    IF j < i THEN 0 ELSE 10 * DigitsValue(s, i, j - 1) + DigitValue(s[j])

IsLeapYear(y) == y % 4 = 0 /\ (y % 100 # 0 \/ y % 400 = 0)

DaysInMonth(y, m) ==
    IF m = 2 THEN (IF IsLeapYear(y) THEN 29 ELSE 28)
    ELSE IF m \in {4, 6, 9, 11} THEN 30 ELSE 31

\* s is YYYY-MM-DD and names a day of the calendar.
IsCalendarDateString(s) ==
    /\ Len(s) = 10
    /\ s[5] = "-" /\ s[8] = "-"
    /\ \A i \in {1, 2, 3, 4, 6, 7, 9, 10} : IsDigit(s[i])
    /\ DigitsValue(s, 6, 7) \in 1..12
    /\ DigitsValue(s, 9, 10) \in 1..DaysInMonth(DigitsValue(s, 1, 4), DigitsValue(s, 6, 7))

\* The year, month and day written in a YYYY-MM-DD string.
WrittenDate(s) == <<DigitsValue(s, 1, 4), DigitsValue(s, 6, 7), DigitsValue(s, 9, 10)>>

HasMalformedDate(r) == r.date.isString /\ ~IsCalendarDateString(r.date.str)

\* The normalised dates of the records of data whose date is not malformed.
WellFormedDatesOf(data, zone) ==
    {t \in {NormalizeDate(data[i].date, zone) :
               i \in {j \in 1..Len(data) : ~HasMalformedDate(data[j])}} :
        ~IsNaNDate(t)}

\* C14 as stated: when the payload holds a record with a malformed date, the
\* fetch still ends with error null, loading false and the records stored, and
\* min and max of availableDateRange are taken over the records with valid
\* dates only: the malformed record gives neither.
C14_AsClaimed ==
    (pc = "done" /\ \E i \in 1..Len(rawData) : HasMalformedDate(rawData[i])) =>
        /\ error = NoError
        /\ loading = FALSE
        /\ availableDateRange.null = FALSE
        /\ LET good == WellFormedDatesOf(rawData, tz)
           IN IF good = {}
              THEN availableDateRange.min.tag # "date"
                   /\ availableDateRange.max.tag # "date"
              ELSE /\ availableDateRange.min \in good
                   /\ availableDateRange.max \in good
                   /\ \A t \in good : TimeLE(availableDateRange.min, t)
                                        /\ TimeLE(t, availableDateRange.max)

\* The order of the positions of fetchData.
PcRank(p) ==
    CASE p = "mount" -> 0
      [] p = "fetching" -> 1
      [] p = "reading" -> 2
      [] p = "initRange" -> 3
      [] p = "catch" -> 3
      [] p = "clearError" -> 4
      [] p = "finally" -> 5
      [] p = "done" -> 6

\* C15: one fetch is issued and it settles once: fetchData never goes back to
\* an earlier position (no second fetch, no retry after a failure), loading
\* never returns from false to true, rawData changes only when the one parse
\* result is stored, and once loading is false, loading, error and rawData
\* never change again, whatever setDateRange calls follow.
C15_SettlesOnce ==
    /\ [][PcRank(pc') >= PcRank(pc)]_vars
    /\ [][pc' = "fetching" => pc \in {"mount", "fetching"}]_vars
    /\ [][loading = FALSE => loading' = FALSE]_vars
    /\ [][rawData' # rawData => (pc = "reading" /\ rawData = <<>>)]_vars
    /\ [][loading = FALSE => UNCHANGED <<loading, error, rawData, pc>>]_vars

\* After a failed fetch the caller has chosen a range: the error is still
\* there, nothing was fetched again.
C15_Witness ==
    /\ pc = "done"
    /\ loading = FALSE
    /\ response = "notOk"
    /\ error = Message("Failed to fetch data")
    /\ dateRange.null = FALSE

\* fetchData is waiting for fetch() or for response.text().
InFlight == pc \in {"fetching", "reading"}

\* C16: while the fetch has not settled the hook stays in Loading: loading is
\* true, error null and rawData empty, and every step that leaves the fetch
\* unsettled is a setDateRange call, which changes dateRange and the views
\* computed from it and nothing else; there is no timeout and no cancellation.
C16_UnsettledStaysLoading ==
    /\ [](InFlight => (loading = TRUE /\ error = NoError /\ rawData = <<>>))
    /\ [][(InFlight /\ pc' = pc) =>
            (/\ SetDateRangeCall
             /\ UNCHANGED <<pc, response, rawData, loading, error, err, now,
                            availableDateRange>>)]_vars

\* The fetch is still in flight and the caller has already chosen a range.
C16_Witness ==
    /\ pc = "fetching"
    /\ loading = TRUE
    /\ error = NoError
    /\ rawData = <<>>
    /\ dateRange.null = FALSE

\* The metrics of the empty set.
EmptyMetrics ==
    [totalSpend |-> 0, totalConversions |-> 0, totalReach |-> 0,
     totalImpressions |-> 0, totalEngagement |-> 0, avgCPA |-> Zero, ctr |-> Zero]

\* fetchData has returned after a fetch that succeeded with zero records.
EmptySuccess == pc = "done" /\ response = "ok" /\ ~Failed /\ rawData = <<>>

\* C17: after a fetch that succeeded with zero records the range was not
\* initialised: the clock was never read, dateRange is what the caller made it
\* (null without a setDateRange call), loading is false, error null,
\* availableDateRange null, filteredData empty and the metrics those of the
\* empty set with avgCPA = 0 and ctr = 0; without a range campaignTrends is
\* empty too.  The step that stores the empty result leaves dateRange alone.
C17_EmptyStoreNoRange ==
    /\ [](EmptySuccess =>
            /\ now = Undefined
            /\ dateRange \in CallerRanges(tz)
            /\ loading = FALSE
            /\ error = NoError
            /\ availableDateRange = NoAvailable
            /\ filteredData = <<>>
            /\ metrics = EmptyMetrics
            /\ (dateRange.null => campaignTrends = <<>>))
    /\ [][(pc = "reading" /\ pc' # "catch" /\ pc' # pc /\ rawData' = <<>>) =>
            (pc' = "clearError" /\ dateRange' = dateRange)]_vars

\* The fetch succeeded with zero records and no range is active.
C17_Witness ==
    /\ EmptySuccess
    /\ dateRange = NoRange
    /\ campaignTrends = <<>>
    /\ metrics = EmptyMetrics

\* range is the seven local days ending the day before the clock reading.
IsLastSevenDays(range, clock) ==
    /\ range.null = FALSE
    /\ LocalFields(range.to, tz).day = LocalFields(clock, tz).day - 1
    /\ LocalFields(range.to, tz).ms = MsPerDay - 1
    /\ LocalFields(range.from, tz).day = LocalFields(clock, tz).day - 7
    /\ LocalFields(range.from, tz).ms = 0

\* C18: when a fetch that succeeded with records settles, the initial range
\* replaces whatever range the caller installed while the fetch was in flight;
\* once fetchData has returned, dateRange changes only by a setDateRange call
\* and takes exactly the value passed.
C18_InFlightRangeReplaced ==
    /\ [][(pc = "initRange" /\ pc' # pc) =>
            IsLastSevenDays(dateRange', now')]_vars
    /\ [][(pc = "done" /\ dateRange' # dateRange) =>
            (SetDateRangeCall /\ dateRange' \in CallerRanges(tz))]_vars
    /\ [][pc = "done" => pc' = "done"]_vars

\* The records are stored and the initialisation is about to run while
\* dateRange holds the range the caller installed during the fetch.
C18_Witness ==
    /\ pc = "initRange"
    /\ Len(rawData) > 0
    /\ dateRange = Range(LocalTime(2024, 1, 30, 10 * MsPerHour, tz),
                         LocalTime(2024, 2, 1, 12 * MsPerHour, tz))

\* The statement of C19 as the specification words it: an error implies an
\* empty store with loading false or about to become false, and a finished
\* load with data implies no error and an active range.
C19_AsClaimed ==
    /\ error.null = FALSE => (rawData = <<>> /\ pc \in {"finally", "done"})
    /\ (loading = FALSE /\ rawData # <<>>) => (error = NoError /\ dateRange.null = FALSE)

\* C19: in every state, the states between the updates of a settling fetch
\* included, an error implies an empty store with loading false or about to
\* become false, and a finished load with data implies no error; the range
\* is set when a fetch with data finishes, and after that it becomes null only
\* by the caller passing null to setDateRange.
C19_ErrorAndDataExclusive ==
    /\ [](error.null = FALSE => (rawData = <<>> /\ pc \in {"finally", "done"}))
    /\ []((loading = FALSE /\ rawData # <<>>) => error = NoError)
    /\ [][(pc = "finally" /\ rawData # <<>>) =>
            (dateRange.null = FALSE /\ dateRange' = dateRange /\ loading' = FALSE)]_vars
    /\ [][(loading = FALSE /\ rawData # <<>> /\ dateRange.null = FALSE /\ dateRange'.null) =>
            SetDateRange(NoRange)]_vars

\* The caught failure is stored while loading is still true: the state
\* between setError and setLoading(false).
C19_Witness ==
    /\ pc = "finally"
    /\ Failed
    /\ error.null = FALSE
    /\ loading = TRUE
    /\ rawData = <<>>

====
